---- MODULE Spec2Model ----
(***************************************************************************)
(* A model of src/src/global_monitor.py: the batch loop of __main__, the   *)
(* check dispatcher run_one_check with its locator resolution, polled text *)
(* reads and JavaScript fallbacks, the result rows built by make_result    *)
(* and the alerts handed to slack_notify.                                  *)
(*                                                                         *)
(* The browser is the environment.  Every call into the driver (a wait for *)
(* a locator, a read of an element's text, an execute_script) answers      *)
(* nondeterministically: the page may change between two calls, and a call *)
(* that the code does not guard may raise.  Python strings are TLA+        *)
(* strings, handled character by character; None is the value None below.  *)
(*                                                                         *)
(* Spec follows a run of __main__ over every configuration of the model,   *)
(* FairSpec the runs of a smaller family of configurations to their exit,  *)
(* UnitSpec a direct call of wait_non_empty_text, pick_value_by_labels or  *)
(* js_find_ec2_near_aws.                                                   *)
(***************************************************************************)
EXTENDS Integers, Sequences, FiniteSets, TLC

\* ------------------------------------------------------------------ bounds

\* The longest locator list of a check.
MaxLocators == 2
\* The most checks in cfg.checks of a batch run.
MaxChecks == 2
\* The most entries in one metadata layer (metadata_by_url[url], check.metadata).
MaxMetaEntries == 1
\* The most rows js_scan_labels returns.
MaxRows == 2
\* The deepest nesting of the elements of a page, from an element up to the root.
MaxDepth == 7
\* The largest seconds a direct call of wait_non_empty_text is given.
MaxSeconds == 3

\* ------------------------------------------------------- program constants

\* run_one_check: wait_non_empty_text(lambda: elem.text, 30) for mtd_cost.
MtdCostSeconds == 30
\* run_one_check: wait_non_empty_text(lambda: elem.text, 15) for cei_grade.
CeiGradeSeconds == 15
\* run_one_check: wait_non_empty_text(lambda: elem.text, 15) for value_required.
ValueRequiredSeconds == 15
\* safe_filename: name[:100].
MaxFilenameLen == 100
\* js_find_ec2_near_aws: for (let i = 0; i < 6 && node; i++).
AncestorCap == 6

\* ------------------------------------------------------------ Python values

\* Python's None, and the absence of a key in a dict read with .get(k, default).
None == "<None>"
Missing == "<missing>"

\* A YAML scalar that loads as an int (name: 404), and isinstance(x, str).
IntName == "<int 404>"
IsStr(x) == x # None /\ x # IntName

\* bool(x) of a string or None.
Truthy(x) == x # None /\ x # ""
\* x or d
OrElse(x, d) == IF Truthy(x) THEN x ELSE d
\* d.get(k, default) of a dict modelled as a record whose absent keys hold Missing.
Get(v, default) == IF v = Missing THEN default ELSE v

\* ------------------------------------------------------------ str methods

UpperChars == "ABCDEFGHIJKLMNOPQRSTUVWXYZ"
LowerChars == "abcdefghijklmnopqrstuvwxyz"
DigitChars == "0123456789"
Whitespace == {" ", "\t", "\n", "\r"}

CharAt(s, i) == SubSeq(s, i, i)
\* s[1:]
Rest(s) == Tail(s)

\* The characters of a string, and the letter-case tables.
CharsOf(s) == {CharAt(s, i) : i \in 1..Len(s)}
UpperSet == CharsOf(UpperChars)
LowerSet == CharsOf(LowerChars)
DigitSet == CharsOf(DigitChars)
ToLower == [c \in UpperSet |-> CharAt(LowerChars, CHOOSE i \in 1..Len(UpperChars) : CharAt(UpperChars, i) = c)]
ToUpper == [c \in LowerSet |-> CharAt(UpperChars, CHOOSE i \in 1..Len(LowerChars) : CharAt(LowerChars, i) = c)]

LowerChar(c) == IF c \in UpperSet THEN ToLower[c] ELSE c
UpperChar(c) == IF c \in LowerSet THEN ToUpper[c] ELSE c

\* str.lower()
Lower(s) ==
  LET lower[t \in STRING] ==
        IF t = "" THEN "" ELSE LowerChar(CharAt(t, 1)) \o lower[Rest(t)]
  IN  lower[s]

\* str.capitalize(): the first character upper-cased, the rest lower-cased.
Capitalize(s) == IF s = "" THEN "" ELSE UpperChar(CharAt(s, 1)) \o Lower(Rest(s))

\* str.lstrip(chars), str.rstrip(chars), str.strip(chars)
LStrip(s, chars) ==
  LET lstrip[t \in STRING] ==
        IF t # "" /\ CharAt(t, 1) \in chars THEN lstrip[Rest(t)] ELSE t
  IN  lstrip[s]
RStrip(s, chars) ==
  LET rstrip[t \in STRING] ==
        IF t # "" /\ CharAt(t, Len(t)) \in chars THEN rstrip[SubSeq(t, 1, Len(t) - 1)] ELSE t
  IN  rstrip[s]
StripChars(s, chars) == RStrip(LStrip(s, chars), chars)
\* str.strip()
Strip(s) == StripChars(s, Whitespace)

\* sub in s
Contains(s, sub) ==
  LET has[t \in STRING] ==
        \E i \in 1..(Len(t) - Len(sub) + 1) : SubSeq(t, i, i + Len(sub) - 1) = sub
  IN  has[s]

\* s.replace(old, new) for a one-character old.
Replace(s, old, new) ==
  LET replace[t \in STRING] ==
        IF t = "" THEN ""
        ELSE (IF CharAt(t, 1) = old THEN new ELSE CharAt(t, 1)) \o replace[Rest(t)]
  IN  replace[s]

\* str.isdigit(): non-empty and made of digits only.
IsDigit(s) ==
  LET isdigit[t \in STRING] == t # "" /\ \A i \in 1..Len(t) : CharAt(t, i) \in DigitSet
  IN  isdigit[s]

\* os.path.basename(path)
Basename(p) ==
  LET basename[t \in STRING] == IF Contains(t, "/") THEN basename[Rest(t)] ELSE t
  IN  basename[p]

\* os.path.join(a, b) for a relative b.
PathJoin(a, b) == a \o "/" \o b

\* ------------------------------------------------------------ file helpers

\* ts(): the wall clock, formatted; one instant stands for the run's clock.
Ts == "2026-01-01_00-00-00"

ForbiddenChars == {"<", ">", ":", "\"", "/", "\\", "|", "?", "*", "\n", "\r", "\t"}

\* re.sub(r'[chars]+', "_", s): every maximal run of chars becomes one "_".
SubRuns(s, chars) ==
  LET sub[t \in STRING] ==
        IF t = "" THEN ""
        ELSE IF CharAt(t, 1) \in chars THEN "_" \o sub[LStrip(t, chars)]
        ELSE CharAt(t, 1) \o sub[Rest(t)]
  IN  sub[s]

safe_filename(name) ==
  LET a == SubRuns(name, ForbiddenChars)
      b == StripChars(SubRuns(a, {"_"}), {"_", " "})
      c == SubSeq(b, 1, IF Len(b) < MaxFilenameLen THEN Len(b) ELSE MaxFilenameLen)
  IN  OrElse(c, "file")

\* snap(name): the path of the screenshot; saving it is guarded and never raises.
snap(name) == PathJoin("screenshots", safe_filename(name) \o "_" \o Ts \o ".png")

\* ------------------------------------------------------------- reporting

EXCEL_COLUMNS ==
  {"Site", "Company", "Service", "Menu", "URL", "Check", "Locator", "Value", "Status", "Screenshot"}

MetaFields == {"Site", "Company", "Service", "Menu"}

make_result(meta, url, check_name, locator_used, value, status, screenshot_path) ==
  LET path == IF status = "FAIL" /\ ~Truthy(screenshot_path)
              THEN snap(Replace(check_name, " ", "_") \o "_Fail")
              ELSE screenshot_path
      screenshot_name == IF Truthy(path) THEN Basename(path) ELSE ""
  IN  [Site       |-> meta["Site"],
       Company    |-> meta["Company"],
       Service    |-> meta["Service"],
       Menu       |-> meta["Menu"],
       URL        |-> url,
       Check      |-> check_name,
       Locator    |-> OrElse(locator_used, ""),
       Value      |-> OrElse(value, ""),
       Status     |-> status,
       Screenshot |-> screenshot_name]

\* make_result raises an AttributeError at check_name.replace(" ", "_") when the row
\* is a FAIL without a screenshot and the name is not a str.
MakeResultRaises(check_name, status, screenshot_path) ==
  status = "FAIL" /\ ~Truthy(screenshot_path) /\ ~IsStr(check_name)

\* ------------------------------------------------------ metadata layering

\* meta[k.capitalize()] = v for every (k, v) of a layer, in the dict's order.  Only
\* the four keys make_result reads are kept.
RECURSIVE ApplyLayer(_, _)
ApplyLayer(meta, layer) ==
  IF layer = <<>> THEN meta
  ELSE LET k == Capitalize(Head(layer)[1])
           v == Head(layer)[2]
       IN  ApplyLayer(IF k \in MetaFields THEN [meta EXCEPT ![k] = v] ELSE meta,
                      Tail(layer))

\* cfg.metadata_by_url.get(url, {})
UrlMeta(meta_by_url, url) ==
  IF url \in DOMAIN meta_by_url THEN meta_by_url[url] ELSE <<>>

\* ResolveMeta with the two override layers applied in the wrong order.
ResolveMetaUrlLast(check, config) ==
  LET base == [k \in MetaFields |->
                 CASE k = "Site"    -> Get(config.defaults.site, "")
                   [] k = "Company" -> Get(config.defaults.company, "")
                   [] OTHER         -> ""]
  IN  ApplyLayer(ApplyLayer(base, check.metadata),
                 UrlMeta(config.metadata_by_url, check.url))

\* run_one_check: defaults -> metadata_by_url[url] -> per-check metadata.
ResolveMeta(check, config) ==
  LET base == [k \in MetaFields |->
                 CASE k = "Site"    -> Get(config.defaults.site, "")
                   [] k = "Company" -> Get(config.defaults.company, "")
                   [] OTHER         -> ""]
  IN  ApplyLayer(ApplyLayer(base, UrlMeta(config.metadata_by_url, check.url)),
                 check.metadata)

\* The meta of the row recorded for a crashed check.
BlankMeta == [k \in MetaFields |-> ""]

\* ------------------------------------------------------------ JS fallbacks

\* Label keys for the label scan (the ASCII ones of the source's list).
SERVER_LABEL_KEYS == <<"total server", "total servers", "server", "servers">>

\* The first value whose label holds one of the keys; else the first numeric value
\* with an empty label; else "".
RECURSIVE FirstLabelled(_, _)
FirstLabelled(rows, label_keys) ==
  IF rows = <<>> THEN None
  ELSE LET lab == Lower(Strip(OrElse(Head(rows).label, "")))
           val == Strip(OrElse(Head(rows).value, ""))
       IN  IF val # "" /\ \E i \in 1..Len(label_keys) : Contains(lab, Lower(label_keys[i]))
           THEN val
           ELSE FirstLabelled(Tail(rows), label_keys)

RECURSIVE FirstUnlabelledNumber(_)
FirstUnlabelledNumber(rows) ==
  IF rows = <<>> THEN ""
  ELSE LET lab == Lower(Strip(OrElse(Head(rows).label, "")))
           val == Strip(OrElse(Head(rows).value, ""))
       IN  IF lab = "" /\ val # "" /\ IsDigit(Replace(val, ",", ""))
           THEN val
           ELSE FirstUnlabelledNumber(Tail(rows))

\* pick_value_by_labels as one loop: the first row that has a key in its label or
\* is an unlabelled number.
RECURSIVE pick_value_one_loop(_, _)
pick_value_one_loop(rows, label_keys) ==
  IF rows = <<>> THEN ""
  ELSE IF FirstLabelled(<<Head(rows)>>, label_keys) # None
  THEN FirstLabelled(<<Head(rows)>>, label_keys)
  ELSE IF FirstUnlabelledNumber(<<Head(rows)>>) # ""
  THEN FirstUnlabelledNumber(<<Head(rows)>>)
  ELSE pick_value_one_loop(Tail(rows), label_keys)

pick_value_by_labels(rows, label_keys) ==
  IF FirstLabelled(rows, label_keys) # None
  THEN FirstLabelled(rows, label_keys)
  ELSE FirstUnlabelledNumber(rows)

\* The tag run_one_check records when no locator matched, by check type.
FallbackTag(ctype) ==
  CASE ctype = "mtd_cost"             -> "[JS MTD cost]"
    [] ctype = "more_available_total" -> "[JS MoreAvailable Total]"
    [] ctype = "cei_grade"            -> "[JS CEI grade]"
    [] ctype = "element_exists"       -> "n/a"
    [] OTHER                          -> "[JS scan fallback]"

\* ------------------------------------------------- the existence extractor

\* A page, as js_find_ec2_near_aws sees it: one branch of the DOM, from an innermost
\* element (position 1) up to the outermost (the last position), every one of
\* them matched by querySelectorAll("span,div,button,a,li,p").  own[i] is the text
\* the element at position i holds itself, before its child; shown says whether the
\* innermost element is rendered (its ancestors are).
TextContent(page, i) ==
  LET text[j \in 0..Len(page.own)] == IF j = 0 THEN "" ELSE page.own[j] \o text[j - 1]
  IN  text[i]
IsVisible(page, i) == i > 1 \/ page.shown

\* (el.textContent || "").trim().toLowerCase() === "ec2" && isVisible(el)
IsEc2(page, i) == Lower(Strip(TextContent(page, i))) = "ec2" /\ IsVisible(page, i)

\* The walk from an element up its ancestors: AncestorCap nodes at most, the element
\* itself being the first, looking for "aws" in the lower-cased text.
NearAws(page, i) ==
  \E k \in 0..(AncestorCap - 1) :
    /\ i + k <= Len(page.own)
    /\ Contains(Lower(TextContent(page, i + k)), "aws")

\* driver.execute_script(js) or "": FOUND from the walk of some visible "ec2"
\* element; else FOUND again if there is any visible "ec2" element; else "".
js_find_ec2_near_aws(page) ==
  IF \E i \in 1..Len(page.own) : IsEc2(page, i) /\ NearAws(page, i) THEN "FOUND"
  ELSE IF \E i \in 1..Len(page.own) : IsEc2(page, i) THEN "FOUND"
  ELSE ""

\* ------------------------------------------------- what the browser answers

\* WebDriverWait(driver, 10).until(visibility_of_element_located(..)): the element,
\* a TimeoutException, or any other driver exception.
WaitOutcomes == {"found", "timeout", "error"}

\* elem.text of a matched element, as the page renders it over time.
ElementTexts == {"", "0", "0EA", " 7 ", "$1,234.00"}

\* What the page scripts return: js_find_mtd_cost and js_find_more_available_total
\* (a currency amount or ""), js_find_ceikpi_grade_full, js_find_ec2_near_aws.
MoneyResults == {"", "$980.10"}
GradeResults == {"", "Grade B (3.2)"}
Ec2Results   == {"", "FOUND"}

\* js_scan_labels pushes a row only when its trimmed value is non-empty.
ScanLabels == {"", "Total Servers", "Region"}
ScanValues == {"0", "1,024", "n/a"}
ScanRow    == [label : ScanLabels, value : ScanValues]

SeqsUpTo(S, n) == UNION {[1..k -> S] : k \in 0..n}
ScanResults == SeqsUpTo(ScanRow, MaxRows)

\* ------------------------------------------------- direct calls of the helpers

\* The pages js_find_ec2_near_aws is run on: the innermost element holds a text of
\* its own, each ancestor holds "AWS " or nothing.
Pages ==
  { [own |-> <<leaf>> \o above, shown |-> shown] :
      leaf \in {"EC2", " ec2 ", "S3"},
      above \in UNION {[1..d -> {"", "AWS "}] : d \in 0..(MaxDepth - 1)},
      shown \in BOOLEAN }

\* The rows pick_value_by_labels is called on: a label or a value may be missing
\* (None), empty, or padded; the label keys are the default ones or the check's.
PickLabels == {None, "", " Total SERVERS ", "Region"}
PickValues == {None, "", ",", " 7 ", "1,024", "n/a"}
PickRows   == SeqsUpTo([label : PickLabels, value : PickValues], MaxRows)
PickKeys   == {SERVER_LABEL_KEYS, <<"region">>}

\* What get_text() answers to wait_non_empty_text: a text, None, or an exception.
GetTextAnswers == ElementTexts \cup {None, "raise"}

\* A direct call of one of the helpers, with its arguments.
Calls ==
  [fn : {"js_find_ec2_near_aws"}, page : Pages]
    \cup [fn : {"pick_value_by_labels"}, rows : PickRows, label_keys : PickKeys]
    \cup [fn : {"wait_non_empty_text"}, seconds : 0..MaxSeconds]
NoCall == [fn |-> "none"]
NotReturned == "<not returned>"

\* --------------------------------------------------------- configurations

\* cfg.checks[i].name and .url; the names hold a space (snap replaces it).
CheckNames == <<"Asset Servers", "MTD Cost", "EC2 Exists", "CEI Grade">>
NameAt(i) == CheckNames[((i - 1) % Len(CheckNames)) + 1]
UrlAt(i)  == "https://console/" \o CharAt(DigitChars, (i % 10) + 1)
OtherUrl  == "https://console/other"

\* type: absent, or a type name in any letter case.
CheckTypes == {None, "MTD_Cost", "more_available_total", "cei_grade", "element_exists"}

\* locators: kind absent (xpath is the default) or given in any case; a value that
\* is blank after strip() is skipped.
LocatorSet ==
  { [kind |-> None,    value |-> "//em[@id='n']"],
    [kind |-> "CSS",   value |-> " .num "],
    [kind |-> "xpath", value |-> " "] }

\* js_fallback or {}: .get("strategy") and .get("label_keys") of an absent entry
\* are None and (falsy) the empty list.
NoFallback == [strategy |-> None, label_keys |-> <<>>]
FallbackSet ==
  { NoFallback,
    [strategy |-> "scan_labels",  label_keys |-> <<>>],
    [strategy |-> "scan_labels",  label_keys |-> <<"Region">>],
    [strategy |-> "ec2_near_aws", label_keys |-> <<>>] }

\* A metadata layer: a dict in insertion order, its keys distinct.
MetaKeys == {"site", "SITE", "menu"}
LayersOf(values) ==
  { l \in SeqsUpTo(MetaKeys \X values, MaxMetaEntries) :
      \A i, j \in 1..Len(l) : i # j => l[i][1] # l[j][1] }

MkCheck(i, type, locators, js_fallback, metadata) ==
  [name |-> NameAt(i), url |-> UrlAt(i), type |-> type, locators |-> locators,
   js_fallback |-> js_fallback, metadata |-> metadata]

PlainDefaults == [site |-> "OpsNow", company |-> "Bespin"]
NoUrlMeta == [u \in {} |-> <<>>]

\* The locator lists: up to MaxLocators locators, none listed twice.
LocatorLists ==
  { ls \in SeqsUpTo(LocatorSet, MaxLocators) : \A i, j \in 1..Len(ls) : i # j => ls[i] # ls[j] }

\* One check of every type, locator list and fallback, with the plain metadata.
DispatchConfigs ==
  { [defaults |-> PlainDefaults, metadata_by_url |-> NoUrlMeta,
     checks |-> <<MkCheck(1, t, ls, fb, <<>>)>>] :
      t \in CheckTypes, ls \in LocatorLists, fb \in FallbackSet }

\* Batches of up to MaxChecks checks of two shapes.
BatchShapes ==
  { [type |-> "element_exists", locators |-> <<[kind |-> None, value |-> "//em[@id='n']"]>>,
     js_fallback |-> NoFallback],
    [type |-> "more_available_total", locators |-> <<>>, js_fallback |-> NoFallback] }
BatchConfigs ==
  { [defaults |-> PlainDefaults, metadata_by_url |-> NoUrlMeta,
     checks |-> [i \in 1..Len(shapes) |->
                   MkCheck(i, shapes[i].type, shapes[i].locators, shapes[i].js_fallback, <<>>)]] :
      shapes \in SeqsUpTo(BatchShapes, MaxChecks) }

\* One check under every combination of the three metadata layers; a value of a
\* layer may be null in the YAML.
MetaConfigs ==
  { [defaults |-> [site |-> s, company |-> "Bespin"],
     metadata_by_url |-> [u \in {url} |-> ul],
     checks |-> <<MkCheck(1, "element_exists", <<>>, NoFallback, cl)>>] :
      s \in {Missing, None, "OpsNow"}, url \in {UrlAt(1), OtherUrl},
      ul \in LayersOf({None, "U"}), cl \in LayersOf({None, "P"}) }

\* Batches of element_exists checks whose names are strings or integers.
NameConfigs ==
  { [defaults |-> PlainDefaults, metadata_by_url |-> NoUrlMeta,
     checks |-> [i \in 1..Len(names) |->
                   [MkCheck(i, "element_exists", <<[kind |-> "CSS", value |-> " .num "]>>,
                            NoFallback, <<>>) EXCEPT !.name = names[i]]]] :
      names \in UNION {[1..k -> {"EC2 Exists", IntName}] : k \in 1..MaxChecks} }

Configs == DispatchConfigs \cup BatchConfigs \cup MetaConfigs \cup NameConfigs

\* The configurations of the runs followed from start to exit: the batches, and one
\* check of every type with no locator or one, under three fallback entries.
LifecycleConfigs ==
  BatchConfigs \cup NameConfigs \cup
  { [defaults |-> PlainDefaults, metadata_by_url |-> NoUrlMeta,
     checks |-> <<MkCheck(1, t, ls, fb, <<>>)>>] :
      t \in CheckTypes,
      ls \in {<<>>, <<[kind |-> None, value |-> "//em[@id='n']"]>>},
      fb \in {NoFallback, [strategy |-> "scan_labels", label_keys |-> <<>>],
              [strategy |-> "ec2_near_aws", label_keys |-> <<>>]} }

\* The configuration files a run may be started on, by family.
ConfigsOf(fam) == IF fam = "lifecycle" THEN LifecycleConfigs ELSE Configs

\* The configuration before load_config has run.
NoConfig == [defaults |-> PlainDefaults, metadata_by_url |-> NoUrlMeta, checks |-> <<>>]

\* ------------------------------------------------------------------ state

VARIABLES
  call,        \* the helper called directly, with its arguments (NoCall in a run of __main__)
  reads,       \* wait_non_empty_text: what get_text() answered, turn by turn
  polled,      \* wait_non_empty_text: txt, in a direct call
  ret,         \* what the helper called directly returned (NotReturned before it has)
  family,      \* the family of configuration files the run is started on
  pc,          \* where __main__ (and, inside the loop, run_one_check) stands
  cfg,         \* the loaded configuration
  driver,      \* the browser session: "none", "open", "quit"
  tempProfile, \* TEMP_PROFILE_DIR: "none", "created", "removed"
  ci,          \* the 1-based position in cfg.checks of the check being run (0: none yet)
  results,     \* the rows appended so far
  alerts,      \* the calls made to slack_notify, in order
  reports,     \* the row lists handed to save_report
  raised,      \* the positions of the checks whose run_one_check raised
  posted,      \* how the last slack_notify call of this check (or of the fatal handler) went
  artifacts,   \* the names handed to snap and dump_html by the two handlers of __main__
  meta,        \* run_one_check: the resolved metadata
  li,          \* run_one_check: the locators consumed by the resolution loop
  waits,       \* what the driver answered for each locator consumed
  elem,        \* run_one_check: the matched element (the position of its locator), 0 for None
  matched,     \* run_one_check: the descriptor of the matched locator, or None
  polls,       \* wait_non_empty_text: the reads of elem.text made
  onlyZero,    \* every read of elem.text made so far returned "0" or "0ea"
  primary,     \* the text the matched element supplied (None: no element was read)
  fbCalled,    \* a fallback extractor was invoked and its result assigned to value
  value,       \* run_one_check: value
  status,      \* run_one_check: status
  fault        \* the driver call of this check that raised, if one did ("none" if not)

unitVars  == <<call, reads, polled, ret>>
mainVars  == <<family, cfg, driver, tempProfile, ci, results, alerts, reports, raised, posted, artifacts>>
checkVars == <<meta, li, waits, elem, matched, polls, onlyZero, primary, fbCalled, value, status,
               fault>>
vars      == <<pc, unitVars, mainVars, checkVars>>

\* The locals of run_one_check before its first statement.
FreshLocals ==
  /\ meta = BlankMeta
  /\ li = 0
  /\ waits = <<>>
  /\ elem = 0
  /\ matched = None
  /\ polls = 0
  /\ onlyZero = TRUE
  /\ primary = None
  /\ fbCalled = FALSE
  /\ value = ""
  /\ status = None
  /\ fault = "none"

\* The globals of the module as its top-level statements leave them.
Globals ==
  /\ cfg = NoConfig
  /\ driver = "none"
  /\ tempProfile = "none"
  /\ ci = 0
  /\ results = <<>>
  /\ alerts = <<>>
  /\ reports = <<>>
  /\ raised = {}
  /\ posted = "none"
  /\ artifacts = <<>>
  /\ FreshLocals

\* No helper is called directly.
NoUnit == call = NoCall /\ reads = <<>> /\ polled = "" /\ ret = NotReturned

\* The state of the module when __main__ starts.
Started == pc = "create_driver" /\ Globals /\ NoUnit

Init == family = "all" /\ Started
InitLifecycle == family = "lifecycle" /\ Started

\* A helper is about to be called directly, outside a run of __main__.
InitUnit ==
  /\ family = "none"
  /\ pc = "call"
  /\ Globals
  /\ call \in Calls
  /\ reads = <<>>
  /\ polled = ""
  /\ ret = NotReturned

\* The check being run, and its normalised type.
Check == cfg.checks[ci]
CType(check) == Lower(OrElse(check.type, "value_required"))

\* slack_notify(check_name, incident_msg, screenshot_path), as the call made.
slack_notify(calls, check_name, incident_msg, screenshot_path) ==
  Append(calls, [check |-> check_name, reason |-> incident_msg, screenshot |-> screenshot_path])

\* How a slack_notify call goes: SLACK_WEBHOOK_URL is empty and the call returns at
\* once; the post answers below 300; it answers 300 or above; building or posting
\* the message raises.  Every one of them is handled inside slack_notify.
SlackOutcomes == {"no_webhook", "ok", "http_error", "exception"}

\* ------------------------------------------------------- __main__, before the loop

\* ensure_dirs(); driver, wait = create_driver().  create_driver makes the temporary
\* profile directory before it starts Chrome, which may fail.
CreateDriver ==
  /\ pc = "create_driver"
  /\ \/ /\ driver' = "open"
        /\ tempProfile' = "created"
        /\ pc' = "load_config"
     \/ /\ driver' = "none"
        /\ tempProfile' \in {"none", "created"}
        /\ pc' = "fatal"
  /\ UNCHANGED <<unitVars, family, cfg, ci, results, alerts, reports, raised, posted, artifacts, checkVars>>

\* cfg = load_config(cfg_path): the YAML file is read, or the read raises.
LoadConfig ==
  /\ pc = "load_config"
  /\ \/ /\ cfg' \in ConfigsOf(family)
        /\ pc' = "login"
     \/ /\ cfg' = cfg
        /\ pc' = "fatal"
  /\ UNCHANGED <<unitVars, family, driver, tempProfile, ci, results, alerts, reports, raised, posted,
                 artifacts, checkVars>>

\* login_console(); results = [].
LoginConsole ==
  /\ pc = "login"
  /\ pc' \in {"loop", "fatal"}
  /\ UNCHANGED <<unitVars, mainVars, checkVars>>

\* ------------------------------------------------------------ the check loop

\* for c in cfg.get("checks", []): the next check is taken up, or the loop ends.
NextCheck ==
  /\ pc = "loop"
  /\ IF ci < Len(cfg.checks)
     THEN /\ ci' = ci + 1
          /\ pc' = "setup"
     ELSE /\ ci' = ci
          /\ pc' = "save_report"
  /\ meta' = BlankMeta
  /\ li' = 0
  /\ waits' = <<>>
  /\ elem' = 0
  /\ matched' = None
  /\ polls' = 0
  /\ onlyZero' = TRUE
  /\ primary' = None
  /\ fbCalled' = FALSE
  /\ value' = ""
  /\ status' = None
  /\ fault' = "none"
  /\ posted' = "none"
  /\ UNCHANGED <<unitVars, family, cfg, driver, tempProfile, results, alerts, reports, raised, artifacts>>

\* run_one_check up to the locator loop: the metadata is resolved; login, navigation
\* and the Xertica pre-steps are guarded (a failure is printed and the check goes
\* on); the wait for the page to render catches a TimeoutException only, so any
\* other driver exception leaves run_one_check.
Setup ==
  /\ pc = "setup"
  /\ meta' = ResolveMeta(Check, cfg)
  /\ \/ /\ pc' = "locate"
        /\ fault' = fault
     \/ /\ pc' = "crashed"
        /\ fault' = "render_wait"
  /\ UNCHANGED <<unitVars, mainVars, li, waits, elem, matched, polls, onlyZero, primary, fbCalled,
                 value, status>>

\* kind = (loc.get("kind") or "xpath").lower(); value = (loc.get("value") or "").strip()
LocatorKind(loc)  == Lower(OrElse(loc.kind, "xpath"))
LocatorValue(loc) == Strip(OrElse(loc.value, ""))
\* matched = f"{kind}:{value}"
Descriptor(loc) == LocatorKind(loc) \o ":" \o LocatorValue(loc)

\* TryLocator without the break: a match does not end the loop.
TryLocatorKeepsGoing ==
  /\ pc = "locate"
  /\ IF li = Len(Check.locators)
     THEN /\ pc' = "extract"
          /\ UNCHANGED <<li, waits, elem, matched, fault>>
     ELSE LET loc == Check.locators[li + 1] IN
          IF LocatorValue(loc) = ""
          THEN /\ li' = li + 1
               /\ waits' = Append(waits, "skipped")
               /\ pc' = pc
               /\ UNCHANGED <<elem, matched, fault>>
          ELSE \E answer \in WaitOutcomes :
                 /\ li' = li + 1
                 /\ waits' = Append(waits, answer)
                 /\ elem' = IF answer = "found" THEN li + 1 ELSE elem
                 /\ matched' = IF answer = "found" THEN Descriptor(loc) ELSE matched
                 /\ pc' = IF answer = "error" THEN "crashed" ELSE "locate"
                 /\ fault' = IF answer = "error" THEN "locator_wait" ELSE fault
  /\ UNCHANGED <<unitVars, mainVars, meta, polls, onlyZero, primary, fbCalled, value, status>>

\* One turn of "for loc in locators": a blank value is skipped; else the driver waits
\* for a visible element: found ends the loop, a TimeoutException goes on to the next
\* locator, any other exception leaves run_one_check.  With no locator left the
\* loop ends with what it has.
TryLocator ==
  /\ pc = "locate"
  /\ IF li = Len(Check.locators)
     THEN /\ pc' = "extract"
          /\ UNCHANGED <<li, waits, elem, matched, fault>>
     ELSE LET loc == Check.locators[li + 1] IN
          IF LocatorValue(loc) = ""
          THEN /\ li' = li + 1
               /\ waits' = Append(waits, "skipped")
               /\ pc' = pc
               /\ UNCHANGED <<elem, matched, fault>>
          ELSE \E answer \in WaitOutcomes :
                 /\ li' = li + 1
                 /\ waits' = Append(waits, answer)
                 /\ elem' = IF answer = "found" THEN li + 1 ELSE elem
                 /\ matched' = IF answer = "found" THEN Descriptor(loc) ELSE matched
                 /\ pc' = CASE answer = "found"   -> "extract"
                            [] answer = "timeout" -> "locate"
                            [] OTHER              -> "crashed"
                 /\ fault' = IF answer = "error" THEN "locator_wait" ELSE fault
  /\ UNCHANGED <<unitVars, mainVars, meta, polls, onlyZero, primary, fbCalled, value, status>>

\* wait_non_empty_text: the text that ends the poll at once.
Rendered(txt) == txt # "" /\ txt # "0" /\ Lower(txt) # "0ea"
IsZeroText(txt) == txt = "0" \/ Lower(txt) = "0ea"

\* The seconds run_one_check passes to wait_non_empty_text, for the types it polls.
PollSeconds(ctype) ==
  CASE ctype = "mtd_cost"  -> MtdCostSeconds
    [] ctype = "cei_grade" -> CeiGradeSeconds
    [] OTHER               -> ValueRequiredSeconds

PolledTypes(ctype) == ctype \notin {"more_available_total", "element_exists"}

\* The "elem else" side of every type: no element matched, so nothing is read
\* (element_exists never reads the text: value = "FOUND" if elem else "").
NoPrimaryRead ==
  /\ pc = "extract"
  /\ elem = 0 \/ CType(Check) = "element_exists"
  /\ value' = IF CType(Check) = "element_exists" /\ elem # 0 THEN "FOUND" ELSE ""
  /\ pc' = "fallback"
  /\ UNCHANGED <<unitVars, mainVars, meta, li, waits, elem, matched, polls, onlyZero, primary,
                 fbCalled, status, fault>>

\* PollText without the try around get_text(): a read that raises leaves the poll.
PollTextUnguarded ==
  /\ pc = "extract"
  /\ elem # 0
  /\ PolledTypes(CType(Check))
  /\ polls < PollSeconds(CType(Check))
  /\ \E read \in ElementTexts \cup {"raise"} :
       LET txt == IF read = "raise" THEN "" ELSE Strip(OrElse(read, "")) IN
       /\ polls' = polls + 1
       /\ onlyZero' = (onlyZero /\ IsZeroText(txt))
       /\ fault' = IF read = "raise" THEN "polled_read" ELSE fault
       /\ IF read = "raise"
          THEN /\ pc' = "crashed"
               /\ UNCHANGED <<value, primary>>
          ELSE IF Rendered(txt) \/ polls + 1 = PollSeconds(CType(Check))
          THEN /\ value' = txt
               /\ primary' = txt
               /\ pc' = "fallback"
          ELSE /\ pc' = pc
               /\ UNCHANGED <<value, primary>>
  /\ UNCHANGED <<unitVars, mainVars, meta, li, waits, elem, matched, fbCalled, status>>

\* One turn of wait_non_empty_text(lambda: elem.text, seconds): the text is read
\* (a read that raises counts as ""), stripped, and returned if it is rendered or
\* if this was the last turn; else the poll sleeps and goes on.
PollText ==
  /\ pc = "extract"
  /\ elem # 0
  /\ PolledTypes(CType(Check))
  /\ polls < PollSeconds(CType(Check))
  /\ \E read \in ElementTexts \cup {"raise"} :
       LET txt == IF read = "raise" THEN "" ELSE Strip(OrElse(read, "")) IN
       /\ polls' = polls + 1
       /\ onlyZero' = (onlyZero /\ IsZeroText(txt))
       /\ fault' = IF read = "raise" THEN "polled_read" ELSE fault
       /\ IF Rendered(txt) \/ polls + 1 = PollSeconds(CType(Check))
          THEN /\ value' = txt
               /\ primary' = txt
               /\ pc' = "fallback"
          ELSE /\ pc' = pc
               /\ UNCHANGED <<value, primary>>
  /\ UNCHANGED <<unitVars, mainVars, meta, li, waits, elem, matched, fbCalled, status>>

\* more_available_total: elem.text.strip(), read once and unguarded.
ReadText ==
  /\ pc = "extract"
  /\ elem # 0
  /\ CType(Check) = "more_available_total"
  /\ \/ \E read \in ElementTexts :
          /\ value' = Strip(read)
          /\ primary' = Strip(read)
          /\ pc' = "fallback"
          /\ fault' = fault
     \/ /\ pc' = "crashed"
        /\ fault' = "text_read"
        /\ UNCHANGED <<value, primary>>
  /\ UNCHANGED <<unitVars, mainVars, meta, li, waits, elem, matched, polls, onlyZero, fbCalled, status>>

\* StatusOf with a zero value counted as a failure.
StatusOfNonZero(v) == IF Truthy(v) /\ v # "0" THEN "PASS" ELSE "FAIL"

\* status = "PASS" if value else "FAIL"
StatusOf(v) == IF Truthy(v) THEN "PASS" ELSE "FAIL"

\* NeedsFallback with the generic branch not looking at the declared strategy.
NeedsFallbackAnyStrategy(ctype, el, v, js_fb) ==
  CASE ctype = "mtd_cost"             -> ~Truthy(v) \/ ~Contains(v, "$")
    [] ctype = "more_available_total" -> ~Truthy(v)
    [] ctype = "cei_grade"            -> ~Truthy(v)
    [] ctype = "element_exists"       -> el = 0 /\ js_fb.strategy = "ec2_near_aws"
    [] OTHER                          -> ~Truthy(v)

\* NeedsFallback with mtd_cost not testing the value for the "$" symbol.
NeedsFallbackNoCurrencyTest(ctype, el, v, js_fb) ==
  CASE ctype = "mtd_cost"             -> ~Truthy(v)
    [] ctype = "more_available_total" -> ~Truthy(v)
    [] ctype = "cei_grade"            -> ~Truthy(v)
    [] ctype = "element_exists"       -> el = 0 /\ js_fb.strategy = "ec2_near_aws"
    [] OTHER                          -> ~Truthy(v) /\ js_fb.strategy = "scan_labels"

\* Whether the type's branch of run_one_check calls its fallback extractor.
NeedsFallback(ctype, el, v, js_fb) ==
  CASE ctype = "mtd_cost"             -> ~Truthy(v) \/ ~Contains(v, "$")
    [] ctype = "more_available_total" -> ~Truthy(v)
    [] ctype = "cei_grade"            -> ~Truthy(v)
    [] ctype = "element_exists"       -> el = 0 /\ js_fb.strategy = "ec2_near_aws"
    [] OTHER                          -> ~Truthy(v) /\ js_fb.strategy = "scan_labels"

\* The primary value stands: no fallback extractor is called.
SkipFallback ==
  /\ pc = "fallback"
  /\ ~NeedsFallback(CType(Check), elem, value, Check.js_fallback)
  /\ status' = IF CType(Check) = "element_exists"
               THEN (IF elem # 0 THEN "PASS" ELSE "FAIL")
               ELSE StatusOf(value)
  /\ pc' = "finish"
  /\ UNCHANGED <<unitVars, mainVars, meta, li, waits, elem, matched, polls, onlyZero, primary,
                 fbCalled, value, fault>>

\* What the page script of a value-bearing type returns.
ScriptResults(ctype) == IF ctype = "cei_grade" THEN GradeResults ELSE MoneyResults

\* mtd_cost, more_available_total, cei_grade: value = js_find_...().strip(), where
\* js_find_... is driver.execute_script(js) or "", which may raise.
ScriptFallback ==
  /\ pc = "fallback"
  /\ CType(Check) \in {"mtd_cost", "more_available_total", "cei_grade"}
  /\ NeedsFallback(CType(Check), elem, value, Check.js_fallback)
  /\ \/ \E r \in ScriptResults(CType(Check)) :
          /\ value' = Strip(OrElse(r, ""))
          /\ status' = StatusOf(Strip(OrElse(r, "")))
          /\ fbCalled' = TRUE
          /\ pc' = "finish"
          /\ fault' = fault
     \/ /\ pc' = "crashed"
        /\ fault' = "script"
        /\ UNCHANGED <<value, status, fbCalled>>
  /\ UNCHANGED <<unitVars, mainVars, meta, li, waits, elem, matched, polls, onlyZero, primary>>

\* Ec2Fallback that leaves matched alone when the script reports found.
Ec2FallbackKeepsLocator ==
  /\ pc = "fallback"
  /\ CType(Check) = "element_exists"
  /\ NeedsFallback(CType(Check), elem, value, Check.js_fallback)
  /\ \/ \E r \in Ec2Results :
          /\ fbCalled' = TRUE
          /\ IF Truthy(OrElse(r, ""))
             THEN /\ status' = "PASS"
                  /\ value' = "FOUND"
                  /\ matched' = matched
             ELSE /\ status' = "FAIL"
                  /\ UNCHANGED <<value, matched>>
          /\ pc' = "finish"
          /\ fault' = fault
     \/ /\ pc' = "crashed"
        /\ fault' = "script"
        /\ UNCHANGED <<value, status, matched, fbCalled>>
  /\ UNCHANGED <<unitVars, mainVars, meta, li, waits, elem, polls, onlyZero, primary>>

\* element_exists with strategy ec2_near_aws and no element: js_find_ec2_near_aws().
Ec2Fallback ==
  /\ pc = "fallback"
  /\ CType(Check) = "element_exists"
  /\ NeedsFallback(CType(Check), elem, value, Check.js_fallback)
  /\ \/ \E r \in Ec2Results :
          /\ fbCalled' = TRUE
          /\ IF Truthy(OrElse(r, ""))
             THEN /\ status' = "PASS"
                  /\ value' = "FOUND"
                  /\ matched' = "[JS EC2-near-AWS]"
             ELSE /\ status' = "FAIL"
                  /\ UNCHANGED <<value, matched>>
          /\ pc' = "finish"
          /\ fault' = fault
     \/ /\ pc' = "crashed"
        /\ fault' = "script"
        /\ UNCHANGED <<value, status, matched, fbCalled>>
  /\ UNCHANGED <<unitVars, mainVars, meta, li, waits, elem, polls, onlyZero, primary>>

\* value_required with strategy scan_labels and no value: rows = js_scan_labels()
\* (execute_script, which may raise), dump_json (guarded), then
\* pick_value_by_labels(rows, js_fb.get("label_keys") or SERVER_LABEL_KEYS).
ScanFallback ==
  /\ pc = "fallback"
  /\ CType(Check) \notin {"mtd_cost", "more_available_total", "cei_grade", "element_exists"}
  /\ NeedsFallback(CType(Check), elem, value, Check.js_fallback)
  /\ \/ \E rows \in ScanResults :
          LET label_keys == IF Check.js_fallback.label_keys # <<>>
                            THEN Check.js_fallback.label_keys
                            ELSE SERVER_LABEL_KEYS
              picked == pick_value_by_labels(rows, label_keys)
          IN  /\ value' = picked
              /\ status' = StatusOf(picked)
              /\ fbCalled' = TRUE
              /\ pc' = "finish"
              /\ fault' = fault
     \/ /\ pc' = "crashed"
        /\ fault' = "script"
        /\ UNCHANGED <<value, status, fbCalled>>
  /\ UNCHANGED <<unitVars, mainVars, meta, li, waits, elem, matched, polls, onlyZero, primary>>

\* reason = f"{ctype} failed (locator: {res['Locator']})"
FailReason(ctype, res) == ctype \o " failed (locator: " \o res.Locator \o ")"
\* os.path.join("screenshots", res["Screenshot"]) if res["Screenshot"] else None
ScreenshotFull(res) ==
  IF Truthy(res.Screenshot) THEN PathJoin("screenshots", res.Screenshot) ELSE None

\* The row run_one_check returns.
CheckResult ==
  make_result(meta, Check.url, Check.name, OrElse(matched, FallbackTag(CType(Check))),
              value, status, None)

\* Finish with a slack_notify that lets the exception of a failed post through.
FinishAlertRaises ==
  /\ pc = "finish"
  /\ IF MakeResultRaises(Check.name, status, None)
     THEN /\ pc' = "crashed"
          /\ fault' = "make_result"
          /\ UNCHANGED <<results, alerts, posted>>
     ELSE IF CheckResult.Status = "FAIL"
     THEN \E outcome \in SlackOutcomes :
            /\ alerts' = slack_notify(alerts, Check.name, FailReason(CType(Check), CheckResult),
                                      ScreenshotFull(CheckResult))
            /\ posted' = outcome
            /\ IF outcome = "exception"
               THEN /\ pc' = "crashed"
                    /\ fault' = "slack_notify"
                    /\ results' = results
               ELSE /\ pc' = "loop"
                    /\ fault' = fault
                    /\ results' = Append(results, CheckResult)
     ELSE /\ results' = Append(results, CheckResult)
          /\ pc' = "loop"
          /\ UNCHANGED <<alerts, posted, fault>>
  /\ UNCHANGED <<unitVars, family, cfg, driver, tempProfile, ci, reports, raised, artifacts>>
  /\ UNCHANGED <<meta, li, waits, elem, matched, polls, onlyZero, primary, fbCalled, value,
                 status>>

\* res = make_result(...), which raises for a FAIL row under a name that is not a
\* str; slack_notify on FAIL, however the post goes; return res, which the loop
\* appends.
Finish ==
  /\ pc = "finish"
  /\ IF MakeResultRaises(Check.name, status, None)
     THEN /\ pc' = "crashed"
          /\ fault' = "make_result"
          /\ UNCHANGED <<results, alerts, posted>>
     ELSE IF CheckResult.Status = "FAIL"
     THEN \E outcome \in SlackOutcomes :
            /\ alerts' = slack_notify(alerts, Check.name, FailReason(CType(Check), CheckResult),
                                      ScreenshotFull(CheckResult))
            /\ posted' = outcome
            /\ results' = Append(results, CheckResult)
            /\ pc' = "loop"
            /\ fault' = fault
     ELSE /\ results' = Append(results, CheckResult)
          /\ pc' = "loop"
          /\ UNCHANGED <<alerts, posted, fault>>
  /\ UNCHANGED <<unitVars, family, cfg, driver, tempProfile, ci, reports, raised, artifacts>>
  /\ UNCHANGED <<meta, li, waits, elem, matched, polls, onlyZero, primary, fbCalled, value,
                 status>>

\* The row the loop records for a check that crashed.
CrashResult == make_result(BlankMeta, Check.url, Check.name, "", "", "FAIL", None)

\* "Check_Crashed_" + safe_filename(c.get('name','unnamed')); safe_filename turns a
\* name that is not a str into one with str().
CrashArtifact(check_name) ==
  "Check_Crashed_" \o safe_filename(IF check_name = IntName THEN "404" ELSE check_name)

\* except Exception: snap and dump_html (guarded), then the FAIL row with minimal
\* info is appended and the loop goes on.  The make_result of that row is not
\* guarded: when it raises, the exception leaves the loop for the outer handler.
CrashHandler ==
  /\ pc = "crashed"
  /\ raised' = raised \cup {ci}
  /\ artifacts' = Append(artifacts, CrashArtifact(Check.name))
  /\ IF MakeResultRaises(Check.name, "FAIL", None)
     THEN /\ results' = results
          /\ pc' = "fatal"
     ELSE /\ results' = Append(results, CrashResult)
          /\ pc' = "loop"
  /\ UNCHANGED <<unitVars, family, cfg, driver, tempProfile, ci, alerts, reports, posted, checkVars>>

\* ------------------------------------------------------- __main__, after the loop

\* SaveReport that may be called again after it has returned.
SaveReportTwice ==
  /\ pc = "save_report"
  /\ reports' = Append(reports, results)
  /\ pc' \in {"save_report", "finally", "fatal"}
  /\ UNCHANGED <<unitVars, family, cfg, driver, tempProfile, ci, results, alerts, raised, posted, artifacts,
                 checkVars>>

\* save_report(results): the call is made with the rows; the report is written, or
\* writing it raises.
SaveReport ==
  /\ pc = "save_report"
  /\ reports' = Append(reports, results)
  /\ pc' \in {"finally", "fatal"}
  /\ UNCHANGED <<unitVars, family, cfg, driver, tempProfile, ci, results, alerts, raised, posted, artifacts,
                 checkVars>>

\* except Exception: snap and dump_html (guarded), slack_notify("Fatal Error", str(e), None).
FatalHandler ==
  /\ pc = "fatal"
  /\ artifacts' = Append(artifacts, "Fatal_Error")
  /\ alerts' = slack_notify(alerts, "Fatal Error", "error", None)
  /\ posted' \in SlackOutcomes
  /\ pc' = "finally"
  /\ UNCHANGED <<unitVars, family, cfg, driver, tempProfile, ci, results, reports, raised, checkVars>>

\* Finally without the removal of the temporary profile.
FinallyKeepsProfile ==
  /\ pc = "finally"
  /\ driver' = IF driver = "open" THEN "quit" ELSE driver
  /\ tempProfile' = tempProfile
  /\ pc' = "done"
  /\ UNCHANGED <<unitVars, family, cfg, ci, results, alerts, reports, raised, posted, artifacts, checkVars>>

\* finally: driver.quit() if driver; shutil.rmtree(TEMP_PROFILE_DIR) if it was made.
Finally ==
  /\ pc = "finally"
  /\ driver' = IF driver = "open" THEN "quit" ELSE driver
  /\ tempProfile' = IF tempProfile = "created" THEN "removed" ELSE tempProfile
  /\ pc' = "done"
  /\ UNCHANGED <<unitVars, family, cfg, ci, results, alerts, reports, raised, posted, artifacts, checkVars>>

Next ==
  \/ CreateDriver
  \/ LoadConfig
  \/ LoginConsole
  \/ NextCheck
  \/ Setup
  \/ TryLocator
  \/ NoPrimaryRead
  \/ PollText
  \/ ReadText
  \/ SkipFallback
  \/ ScriptFallback
  \/ Ec2Fallback
  \/ ScanFallback
  \/ Finish
  \/ CrashHandler
  \/ SaveReport
  \/ FatalHandler
  \/ Finally

Spec == Init /\ [][Next]_vars

\* The interpreter runs the script statement by statement, and every wait on the
\* driver has a timeout: a step that can be taken is taken.
FairSpec == InitLifecycle /\ [][Next]_vars /\ WF_vars(Next)

\* ------------------------------------------------- the helpers, called directly

\* js_find_ec2_near_aws() on a page.
CallEc2NearAws ==
  /\ pc = "call"
  /\ call.fn = "js_find_ec2_near_aws"
  /\ ret' = js_find_ec2_near_aws(call.page)
  /\ pc' = "returned"
  /\ UNCHANGED <<call, reads, polled, mainVars, checkVars>>

\* pick_value_by_labels(rows, label_keys).
CallPickValue ==
  /\ pc = "call"
  /\ call.fn = "pick_value_by_labels"
  /\ ret' = pick_value_by_labels(call.rows, call.label_keys)
  /\ pc' = "returned"
  /\ UNCHANGED <<call, reads, polled, mainVars, checkVars>>

\* WaitTurn that goes on polling after a rendered text.
WaitTurnKeepsPolling ==
  /\ pc = "call"
  /\ call.fn = "wait_non_empty_text"
  /\ Len(reads) < call.seconds
  /\ \E answer \in GetTextAnswers :
       /\ reads' = Append(reads, answer)
       /\ polled' = IF answer = "raise" THEN "" ELSE Strip(OrElse(answer, ""))
       /\ UNCHANGED <<ret, pc>>
  /\ UNCHANGED <<call, mainVars, checkVars>>

\* One turn of "for _ in range(seconds)" of wait_non_empty_text(get_text, seconds):
\* txt = (get_text() or "").strip(), or "" when get_text raises; a rendered txt is
\* returned at once, else the turn sleeps.
WaitTurn ==
  /\ pc = "call"
  /\ call.fn = "wait_non_empty_text"
  /\ Len(reads) < call.seconds
  /\ \E answer \in GetTextAnswers :
       LET t == IF answer = "raise" THEN "" ELSE Strip(OrElse(answer, "")) IN
       /\ reads' = Append(reads, answer)
       /\ polled' = t
       /\ IF Rendered(t)
          THEN /\ ret' = t
               /\ pc' = "returned"
          ELSE UNCHANGED <<ret, pc>>
  /\ UNCHANGED <<call, mainVars, checkVars>>

\* The loop of wait_non_empty_text is over: return txt.
WaitReturn ==
  /\ pc = "call"
  /\ call.fn = "wait_non_empty_text"
  /\ Len(reads) = call.seconds
  /\ ret' = polled
  /\ pc' = "returned"
  /\ UNCHANGED <<call, reads, polled, mainVars, checkVars>>

UnitNext ==
  \/ CallEc2NearAws
  \/ CallPickValue
  \/ WaitTurn
  \/ WaitReturn

\* A call runs to its return: the loop of wait_non_empty_text sleeps one second a
\* turn and then goes on.
UnitSpec == InitUnit /\ [][UnitNext]_vars /\ WF_vars(UnitNext)

\* ------------------------------------------------------------------ claims

\* run_one_check is running (or has just raised) for check ci.
InCheck == pc \in {"setup", "locate", "extract", "fallback", "finish", "crashed"}
\* run_one_check has just returned the row of check ci, its locals still in place.
Returned == pc = "loop" /\ ci >= 1 /\ ci \notin raised
\* The row recorded for the check taken up last.
Row == results[ci]
\* The loop is over (or the run has left it).
AfterLoop == pc \in {"save_report", "fatal", "finally", "done"}

\* C1: in the batch loop, every check whose run_one_check raised gets exactly one
\* row, carrying its name, Status FAIL and an empty Value, and the checks after it
\* are still run: there is one row per check taken up, and once a check has raised
\* the loop still ends with a row for every configured check.
C1_CrashIsolated ==
  /\ Len(results) = (IF InCheck THEN ci - 1 ELSE ci)
  /\ \A i \in raised :
       /\ i \in 1..Len(results)
       /\ results[i].Check = cfg.checks[i].name
       /\ results[i].URL = cfg.checks[i].url
       /\ results[i].Status = "FAIL"
       /\ results[i].Value = ""
  /\ (raised # {} /\ AfterLoop) => Len(results) = Len(cfg.checks)

\* C2 as stated: no exception leaves run_one_check for its caller.
C2_NothingEscapes == pc # "crashed"

\* C2, amended: run_one_check absorbs a TimeoutException of a locator wait and any
\* exception of a polled text read; it is left only by an exception of a call it
\* does not guard (the render wait, a locator wait that fails otherwise than by
\* timeout, the single text read of more_available_total, a fallback script, the
\* make_result of a FAIL row under a name that is not a string), and then the
\* exception is caught by the per-check handler of the batch loop, whose row for
\* the check is a FAIL row.
C2_EscapesOnlyUnguarded ==
  /\ pc = "crashed"
       => fault \in {"render_wait", "locator_wait", "text_read", "script", "make_result"}
  /\ (pc = "crashed" /\ fault = "locator_wait") => waits[Len(waits)] = "error"
  /\ (pc = "crashed" /\ fault = "make_result") => (status = "FAIL" /\ ~IsStr(Check.name))
  /\ (pc \in {"locate", "extract", "fallback", "finish"} \/ Returned)
       => fault \in {"none", "polled_read"}
  /\ Returned => /\ Len(results) = ci
                 /\ Row.Check = Check.name
  /\ \A i \in raised : i \in 1..Len(results) => results[i].Status = "FAIL"
  /\ \A i \in raised : i \in 1..Len(results) \/ (i = ci /\ AfterLoop)

\* A fallback script raised, run_one_check was left, and the loop recorded the row.
C2_Witness ==
  /\ pc = "loop"
  /\ ci \in raised
  /\ fault = "script"
  /\ Row.Status = "FAIL"

\* The check's type is the generic one (value_required, the default).
IsValueRequired(check) ==
  CType(check) \notin {"mtd_cost", "more_available_total", "cei_grade", "element_exists"}

\* C3: a value_required check whose matched element read "0" or "0ea" on every poll
\* of the whole retry window ends FAIL unless the label scan supplied a non-empty,
\* non-zero value; its row is never PASS with the element's "0" as Value.
C3_ZeroIsEmpty ==
  (Returned /\ IsValueRequired(Check) /\ elem # 0
     /\ polls = ValueRequiredSeconds /\ onlyZero)
    => \/ Row.Status = "FAIL"
       \/ fbCalled /\ Row.Value # "" /\ ~IsZeroText(Row.Value)

\* The descriptor "kind:value" of the two locators of the model that can match.
C4_Descriptor(loc) ==
  IF loc = [kind |-> "CSS", value |-> " .num "] THEN "css:.num" ELSE "xpath://em[@id='n']"

\* C4: the locators are tried in declared order and resolution stops at the first
\* that yields a visible element: the match is the last locator consulted, every
\* locator before it timed out (or was blank), the descriptor is the matching
\* locator's "kind:value"; a timeout goes on to the next locator, and when every
\* locator timed out (or the list is empty) there is no match, and no error.
C4_FirstMatchWins ==
  (InCheck \/ Returned) =>
    /\ Len(waits) = li
    /\ \A j \in 1..Len(waits) :
         /\ waits[j] = "skipped" <=> LocatorValue(Check.locators[j]) = ""
         /\ waits[j] \in {"found", "error"} => j = Len(waits)
         /\ waits[j] = "found" <=> elem = j
         /\ waits[j] = "error" => pc = "crashed" /\ fault = "locator_wait"
    /\ elem # 0 => matched = C4_Descriptor(Check.locators[elem])
    /\ elem = 0 => matched \in {None, "[JS EC2-near-AWS]"}
    /\ (elem = 0 /\ (pc \in {"extract", "fallback", "finish"} \/ Returned))
         => /\ Len(waits) = Len(Check.locators)
            /\ \A j \in 1..Len(waits) : waits[j] \in {"timeout", "skipped"}

\* Of [A, B], A timed out and B matched: the element and the descriptor are B's.
C4_Witness ==
  /\ pc = "extract"
  /\ Len(Check.locators) = 2
  /\ waits = <<"timeout", "found">>
  /\ elem = 2
  /\ matched = "css:.num"

\* The check has an empty locator list and declares no js_fallback.
BareCheck(check) == check.locators = <<>> /\ check.js_fallback = NoFallback

\* C5 as stated: every check with no locator and no js_fallback entry ends FAIL with
\* an empty Value and Locator "n/a" or the type's fallback tag.
C5_BareCheckFails ==
  (Returned /\ BareCheck(Check)) =>
    /\ Row.Status = "FAIL"
    /\ Row.Value = ""
    /\ Row.Locator \in {"n/a", FallbackTag(CType(Check))}

\* C5, amended: with no locator and no js_fallback entry, the row of an
\* element_exists or value_required check is FAIL with an empty Value and no
\* extractor is called; mtd_cost, more_available_total and cei_grade call their
\* extractor whatever js_fallback says, and the row is FAIL with an empty Value
\* exactly when the extractor found nothing, PASS with its value otherwise.  The
\* Locator is the type's tag ("n/a" for element_exists) in every case.
C5_BareCheckByType ==
  (Returned /\ BareCheck(Check)) =>
    /\ Row.Locator = FallbackTag(CType(Check))
    /\ Row.Locator = "n/a" <=> CType(Check) = "element_exists"
    /\ IF CType(Check) \in {"mtd_cost", "more_available_total", "cei_grade"}
       THEN /\ fbCalled
            /\ Row.Status = "FAIL" <=> Row.Value = ""
            /\ Row.Status = "PASS" <=> Row.Value \in {"$980.10", "Grade B (3.2)"}
       ELSE /\ ~fbCalled
            /\ Row.Status = "FAIL"
            /\ Row.Value = ""

\* A bare mtd_cost check passed on what its extractor found.
C5_Witness ==
  /\ Returned
  /\ BareCheck(Check)
  /\ CType(Check) = "mtd_cost"
  /\ Row.Status = "PASS"
  /\ Row.Value = "$980.10"
  /\ Row.Locator = "[JS MTD cost]"

\* C6: the Locator of a row names the source of its Value: the matched locator's
\* descriptor only when Value is that element's text, the fallback tag whenever a
\* fallback extractor produced the Value.
C6_LocatorNamesSource ==
  (Returned /\ Row.Value # "") =>
    /\ (elem # 0 /\ Row.Locator = C4_Descriptor(Check.locators[elem]))
         => (~fbCalled /\ (Row.Value = primary \/ Row.Value = "FOUND"))
    /\ fbCalled => Row.Locator \in {FallbackTag(CType(Check)), "[JS EC2-near-AWS]"}

\* The metadata field a layer's key sets, and the layer's last entry setting it.
SetsField(layer, field) == \E i \in 1..Len(layer) : Capitalize(layer[i][1]) = field
LastSet(layer, field) ==
  layer[CHOOSE i \in 1..Len(layer) :
          /\ Capitalize(layer[i][1]) = field
          /\ \A j \in (i + 1)..Len(layer) : Capitalize(layer[j][1]) # field][2]

\* The value C7 gives a metadata field of the check being run.
C7_Expected(field) ==
  LET perCheck == Check.metadata
      perUrl   == IF Check.url \in DOMAIN cfg.metadata_by_url
                  THEN cfg.metadata_by_url[Check.url] ELSE <<>>
  IN  IF SetsField(perCheck, field) THEN LastSet(perCheck, field)
      ELSE IF SetsField(perUrl, field) THEN LastSet(perUrl, field)
      ELSE IF field = "Site" /\ cfg.defaults.site # Missing THEN cfg.defaults.site
      ELSE IF field = "Company" /\ cfg.defaults.company # Missing THEN cfg.defaults.company
      ELSE ""

\* C7: metadata is resolved in three layers: a key the per-check layer sets has the
\* per-check value, a key only the per-URL layer sets keeps the per-URL value, a
\* key neither sets keeps the default (site, company) or "" (service, menu); the
\* row run_one_check returns carries the resolved values.
C7_MetadataPrecedence ==
  /\ (ci >= 1 /\ pc \notin {"setup", "save_report", "fatal", "finally", "done"})
       => \A field \in MetaFields : meta[field] = C7_Expected(field)
  /\ Returned => \A field \in MetaFields : Row[field] = C7_Expected(field)

\* All three layers set the site, each to another value, and the row has the
\* per-check one.
C7_Witness ==
  /\ Returned
  /\ cfg.defaults.site = "OpsNow"
  /\ SetsField(Check.metadata, "Site")
  /\ Check.url \in DOMAIN cfg.metadata_by_url
  /\ SetsField(cfg.metadata_by_url[Check.url], "Site")
  /\ LastSet(cfg.metadata_by_url[Check.url], "Site") = "U"
  /\ Row.Site = "P"

\* C8: every row of results has its ten fields present and not null, also when a
\* metadata value of the configuration is null.
C8_NoNullField ==
  \A i \in 1..Len(results) :
    /\ DOMAIN results[i] = EXCEL_COLUMNS
    /\ \A column \in EXCEL_COLUMNS : results[i][column] # None

\* The names of the FAIL rows, and of the checks alerted, in order.
RECURSIVE FailedChecks(_)
FailedChecks(rows) ==
  IF rows = <<>> THEN <<>>
  ELSE (IF Head(rows).Status = "FAIL" THEN <<Head(rows).Check>> ELSE <<>>)
         \o FailedChecks(Tail(rows))
RECURSIVE AlertedChecks(_)
AlertedChecks(calls) ==
  IF calls = <<>> THEN <<>>
  ELSE (IF Head(calls).check # "Fatal Error" THEN <<Head(calls).check>> ELSE <<>>)
         \o AlertedChecks(Tail(calls))

\* C9: every check that ends with a FAIL row, returned or recorded after a crash,
\* has been alerted before the next check starts, and no PASS row is alerted: the
\* alerted checks are the checks of the FAIL rows, in order.
C9_EveryFailAlerted ==
  AlertedChecks(alerts) = FailedChecks(results)

\* C10: Status is PASS exactly when the extracted value is non-empty (for
\* element_exists: when the element, or the fallback, was found), FAIL otherwise;
\* so every row has Status PASS exactly when its Value is non-empty, and no other
\* Status than PASS and FAIL.
C10_PassIffValue ==
  /\ \A i \in 1..Len(results) :
       /\ results[i].Status \in {"PASS", "FAIL"}
       /\ results[i].Status = "PASS" <=> results[i].Value # ""
  /\ Returned =>
       /\ Row.Value = value
       /\ Row.Status = status
       /\ IF CType(Check) = "element_exists"
          THEN status = "PASS" <=> (elem # 0 \/ (fbCalled /\ matched = "[JS EC2-near-AWS]"))
          ELSE status = "PASS" <=> value # ""

\* A row returned with Status PASS and the non-empty Value the element supplied.
C10_Witness ==
  /\ Returned
  /\ ~fbCalled
  /\ Row.Status = "PASS"
  /\ Row.Value = "0"

\* A fallback extractor was invoked: it returned, or it raised.
FallbackInvoked == fbCalled \/ fault = "script"

\* C11: the row of an element_exists check.  With a locator matched it is PASS with
\* Value "FOUND" and the matched descriptor, and no fallback is invoked; with none
\* matched the existence fallback is invoked only under strategy ec2_near_aws, and
\* if it reports found the row is PASS, "FOUND", "[JS EC2-near-AWS]"; in every
\* other case the row is FAIL with an empty Value and Locator "n/a".
C11_ElementExists ==
  /\ ((pc \in {"finish", "crashed"} \/ Returned) /\ CType(Check) = "element_exists"
        /\ FallbackInvoked)
       => (elem = 0 /\ Check.js_fallback.strategy = "ec2_near_aws")
  /\ (Returned /\ CType(Check) = "element_exists") =>
       IF elem # 0
       THEN /\ Row.Status = "PASS"
            /\ Row.Value = "FOUND"
            /\ Row.Locator = C4_Descriptor(Check.locators[elem])
            /\ ~fbCalled
       ELSE IF fbCalled /\ matched = "[JS EC2-near-AWS]"
       THEN /\ Row.Status = "PASS"
            /\ Row.Value = "FOUND"
            /\ Row.Locator = "[JS EC2-near-AWS]"
       ELSE /\ Row.Status = "FAIL"
            /\ Row.Value = ""
            /\ Row.Locator = "n/a"

\* No locator in the list, strategy ec2_near_aws, the script reported found.
C11_Witness ==
  /\ Returned
  /\ CType(Check) = "element_exists"
  /\ Check.locators = <<>>
  /\ Check.js_fallback.strategy = "ec2_near_aws"
  /\ fbCalled
  /\ Row.Status = "PASS"
  /\ Row.Value = "FOUND"
  /\ Row.Locator = "[JS EC2-near-AWS]"

\* C12: for an mtd_cost check js_find_mtd_cost is invoked exactly when no locator
\* matched or the polled text is empty or has no "$"; when the matched element's
\* text is non-empty and holds "$", the row has that text as Value, Status PASS
\* and the matched locator's "kind:value" as Locator.
C12_MtdCost ==
  /\ ((pc \in {"finish", "crashed"} \/ Returned) /\ CType(Check) = "mtd_cost"
        /\ fault \in {"none", "polled_read", "script"})
       => (FallbackInvoked <=> (elem = 0 \/ primary = "" \/ ~Contains(primary, "$")))
  /\ (Returned /\ CType(Check) = "mtd_cost" /\ elem # 0 /\ primary # None
        /\ primary # "" /\ Contains(primary, "$"))
       => /\ Row.Value = primary
          /\ Row.Status = "PASS"
          /\ Row.Locator = C4_Descriptor(Check.locators[elem])

\* The matched element read "$1,234.00": the row carries it, from the xpath locator.
C12_Witness ==
  /\ Returned
  /\ CType(Check) = "mtd_cost"
  /\ ~fbCalled
  /\ Row.Value = "$1,234.00"
  /\ Row.Status = "PASS"
  /\ Row.Locator = "xpath://em[@id='n']"

\* C13: once a check has completed, save_report is called with the rows of all the
\* checks completed, on every way the run ends, the fatal path included: a run
\* that has ended with at least one row has made a save_report call, with
\* exactly those rows.
C13_ReportAttempted ==
  (pc = "done" /\ Len(results) >= 1)
    => (Len(reports) >= 1 /\ reports[Len(reports)] = results)

\* The "Fatal Error" alerts among the slack_notify calls made.
RECURSIVE FatalAlerts(_)
FatalAlerts(calls) ==
  IF calls = <<>> THEN 0
  ELSE (IF Head(calls).check = "Fatal Error" THEN 1 ELSE 0) + FatalAlerts(Tail(calls))

\* C14: every run ends, and ends through the cleanup: the session is quit if one
\* was created and the temporary profile of the run is removed, whether the run
\* completed or a fatal error was raised (at driver creation, configuration load,
\* login, in the check loop, at the report save); on the fatal path the handler
\* captures the artifacts and makes one "Fatal Error" alert, before the cleanup.
C14_CleanupBeforeExit ==
  /\ <>(pc = "done")
  /\ [](pc = "done" => (driver # "open" /\ tempProfile # "created"))
  /\ [](pc = "fatal" => (driver # "quit" /\ tempProfile # "removed"
                          /\ FatalAlerts(alerts) = 0))
  /\ [](FatalAlerts(alerts) <= 1)
  /\ [][pc = "fatal" =>
          /\ pc' = "finally"
          /\ FatalAlerts(alerts') = 1
          /\ artifacts' = Append(artifacts, "Fatal_Error")
          /\ UNCHANGED <<driver, tempProfile>>]_vars
  /\ [][pc' = "done" =>
          /\ pc = "finally"
          /\ driver = "open" => driver' = "quit"
          /\ tempProfile = "created" => tempProfile' = "removed"]_vars

\* A fatal error in the check loop, after which the run ended with the alert made,
\* the session quit and the profile removed.
C14_Witness ==
  /\ pc = "done"
  /\ raised # {}
  /\ Len(reports) = 0
  /\ FatalAlerts(alerts) = 1
  /\ artifacts[Len(artifacts)] = "Fatal_Error"
  /\ driver = "quit"
  /\ tempProfile = "removed"

\* C15: however a slack_notify call goes (no webhook URL, an HTTP error status, an
\* exception while the message is built or posted), it does not raise, and the
\* row run_one_check returns and the rows already in results are what they are
\* when the post succeeds: the row built from the locals of the check is appended
\* to the rows recorded before, and the loop goes on.
C15_AlertFailureHarmless ==
  /\ [](pc = "crashed" => fault # "slack_notify")
  /\ [](Returned => Row = CheckResult)
  /\ [][(pc = "finish" /\ ~MakeResultRaises(Check.name, status, None))
          => /\ pc' = "loop"
             /\ results' = Append(results, CheckResult)
             /\ fault' = fault]_vars
  /\ [][pc = "fatal" => (pc' = "finally" /\ results' = results)]_vars

\* A FAIL row was returned although the post of its alert raised.
C15_Witness ==
  /\ Returned
  /\ Row.Status = "FAIL"
  /\ posted = "exception"
  /\ Len(alerts) >= 1
  /\ alerts[Len(alerts)].check = Row.Check

\* C18: the checks are processed one at a time in configuration order.  A check is
\* taken up only when every check before it has its row; row i carries the name
\* and the URL of check i; a step leaves results alone or appends one row to it;
\* when the loop ends there is one row per configured check; save_report is
\* called only then, once, with those rows.
C18_SequentialAppendOnly ==
  /\ [](InCheck => Len(results) = ci - 1)
  /\ [](\A i \in 1..Len(results) :
          /\ results[i].Check = cfg.checks[i].name
          /\ results[i].URL = cfg.checks[i].url)
  /\ [](pc = "save_report" => (Len(results) = Len(cfg.checks) /\ reports = <<>>))
  /\ [](Len(reports) <= 1)
  /\ [][\/ results' = results
        \/ /\ Len(results') = Len(results) + 1
           /\ SubSeq(results', 1, Len(results)) = results]_vars
  /\ [][pc = "save_report" => reports' = <<results>>]_vars
  /\ [][reports' # reports => (pc = "save_report" /\ results' = results)]_vars

\* A batch of two checks ended: two rows in the order of the checks, one report.
C18_Witness ==
  /\ pc = "done"
  /\ Len(cfg.checks) = 2
  /\ Len(results) = 2
  /\ results[1].Check = "Asset Servers"
  /\ results[2].Check = "MTD Cost"
  /\ reports = <<results>>

\* A helper called directly has returned.
ReturnedFrom(fn) == pc = "returned" /\ call.fn = fn

\* C16: js_find_ec2_near_aws reports found only when the two tokens occur together:
\* some visible element whose trimmed text is "ec2" (in any letter case) has
\* "aws" in its own text or in the text of one of its ancestors, within six
\* levels; a page with a visible "ec2" element and no "aws" within six levels
\* of it gives not-found.
C16_CoOccurrence ==
  ReturnedFrom("js_find_ec2_near_aws") =>
    (ret = "FOUND" =>
       \E i \in 1..Len(call.page.own) :
         /\ IsEc2(call.page, i)
         /\ \E j \in i..Len(call.page.own) :
              /\ j - i < AncestorCap
              /\ Contains(Lower(TextContent(call.page, j)), "aws"))

\* C17: pick_value_by_labels returns the value of the first row, in row order, with
\* a non-empty value and a label that holds one of the label keys, letter case
\* apart; if no row is such, the first value made of digits and commas only (with
\* a digit) whose label is empty; if there is none either, "".  So a row matching
\* a key wins over an unlabelled number that comes before it.
C17_PickValue ==
  ReturnedFrom("pick_value_by_labels") =>
    LET rows == call.rows
        keys == call.label_keys
        Lab(i) == Lower(Strip(IF rows[i].label = None THEN "" ELSE rows[i].label))
        Val(i) == Strip(IF rows[i].value = None THEN "" ELSE rows[i].value)
        Labelled(i) == Val(i) # "" /\ \E k \in 1..Len(keys) : Contains(Lab(i), Lower(keys[k]))
        Numeric(i) ==
          /\ Lab(i) = ""
          /\ \A n \in 1..Len(Val(i)) : CharAt(Val(i), n) \in DigitSet \cup {","}
          /\ \E n \in 1..Len(Val(i)) : CharAt(Val(i), n) \in DigitSet
        First(P(_)) == CHOOSE i \in 1..Len(rows) : P(i) /\ \A j \in 1..(i - 1) : ~P(j)
    IN  IF \E i \in 1..Len(rows) : Labelled(i) THEN ret = Val(First(Labelled))
        ELSE IF \E i \in 1..Len(rows) : Numeric(i) THEN ret = Val(First(Numeric))
        ELSE ret = ""

\* An unlabelled number comes first, a row matching a key second: the second wins.
C17_Witness ==
  /\ ReturnedFrom("pick_value_by_labels")
  /\ call.rows = <<[label |-> "", value |-> "1,024"],
                   [label |-> " Total SERVERS ", value |-> " 7 "]>>
  /\ call.label_keys = SERVER_LABEL_KEYS
  /\ ret = "7"

\* What get_text() answered is a text that ends the poll: non-empty once stripped,
\* and neither "0" nor "0ea" in any letter case.
EndsPoll(answer) ==
  /\ answer \notin {"raise", None}
  /\ Strip(answer) # ""
  /\ Lower(Strip(answer)) \notin {"0", "0ea"}

\* C19: wait_non_empty_text(get_text, seconds) is a bounded poll.  It calls get_text
\* at most seconds times; it returns at the first read that ends the poll, with
\* that text stripped, so no read is made after such a read; a read that raises
\* counts as an empty text and the poll goes on; with seconds = 0 it returns ""
\* without a read; and every call returns.
C19_BoundedPoll ==
  /\ [](call.fn = "wait_non_empty_text" =>
          /\ Len(reads) <= call.seconds
          /\ \A j \in 1..(Len(reads) - 1) : ~EndsPoll(reads[j])
          /\ (pc = "call" => \A j \in 1..Len(reads) : ~EndsPoll(reads[j]))
          /\ (pc = "returned" =>
                IF reads # <<>> /\ EndsPoll(reads[Len(reads)])
                THEN ret = Strip(reads[Len(reads)])
                ELSE /\ Len(reads) = call.seconds
                     /\ (reads = <<>> \/ reads[Len(reads)] = "raise") => ret = ""))
  /\ [](ReturnedFrom("wait_non_empty_text") /\ call.seconds = 0 => (ret = "" /\ reads = <<>>))
  /\ <>(pc = "returned")

\* A call with seconds = 3: the first read raised, the second gave "0EA", the third
\* a text, which was returned stripped.
C19_Witness ==
  /\ ReturnedFrom("wait_non_empty_text")
  /\ call.seconds = 3
  /\ reads = <<"raise", "0EA", " 7 ">>
  /\ ret = "7"
====
